---- MODULE Spec2Model ----
(***************************************************************************)
(* Model of notebooks/2015/mode/transit_mode.ipynb: the "Data" cell joins  *)
(* the transit mode column with the two weight columns, the "Table" cell   *)
(* groups, sums, appends the "Total valid" and "Total" rows and formats    *)
(* the frame with to_html, the "Chart" cell plots the per-category         *)
(* percent series.                                                         *)
(*                                                                         *)
(* Values.  A missing value (NaN / None / a key absent from a row dict) is *)
(* the empty tuple.  A present input cell is the one-element tuple <<v>>.  *)
(* A float quotient n / d is kept exact as the pair <<n, d>>; 0 / 0 is NaN *)
(* and x / 0 (x # 0) is the pair <<x, 0>>, numpy's inf.  Weights are       *)
(* non-negative integers (spec.md section 3), so float sums are exact.     *)
(***************************************************************************)
EXTENDS Integers, Sequences, FiniteSets

VARIABLES pc, transit_mode, summary, frame, table, figure

vars == <<pc, transit_mode, summary, frame, table, figure>>

\* Longest input frame, in rows.
MaxRows == 2
\* Largest weight value of an input row.
MaxWeight == 1

\* The categories of the transit_mode column, in categorical (sort) order.
CategoryOrder == <<"Bus", "Rail">>

Categories == {CategoryOrder[i] : i \in DOMAIN CategoryOrder}

NaN == <<>>

isna(x) == x = NaN

\* One joined row: the category column of transit_mode.parquet next to the
\* two weight columns of weights.parquet; each cell may be missing.
Rows ==
    [transit_mode : {NaN} \cup {<<c>> : c \in Categories},
     unlinked_weight : {NaN} \cup {<<w>> : w \in 0..MaxWeight},
     linked_weight : {NaN} \cup {<<w>> : w \in 0..MaxWeight}]

DataFrames(n) == [1..n -> Rows]

--------------------------------------------------------------------------
\* pandas / numpy / python primitives used by the Table cell

\* Series.sum() / GroupBy.sum() of one column over the rows at the positions
\* in idx: missing cells are skipped (skipna), an empty selection sums to 0.
RECURSIVE column_sum_to(_, _, _, _)
column_sum_to(df, col, idx, n) ==
    IF n = 0 THEN 0
    ELSE column_sum_to(df, col, idx, n - 1)
         + (IF n \in idx /\ ~isna(df[n][col]) THEN df[n][col][1] ELSE 0)

column_sum(df, col, idx) == column_sum_to(df, col, idx, Len(df))

\* The row positions of one group of groupby("transit_mode").
group_rows(df, c) == {i \in DOMAIN df : df[i].transit_mode = <<c>>}

\* Fault seeded into group_keys: observed=False, every category forms a group.
group_keys_unobserved(df) == CategoryOrder

\* The group keys of groupby("transit_mode", observed=True): the categories
\* that occur in a row, in sorted order; rows with a missing key form no group.
group_keys(df) ==
    SelectSeq(CategoryOrder, LAMBDA c : \E i \in DOMAIN df : df[i].transit_mode = <<c>>)

\* GroupBy.size(): the rows of each group, whatever their weights hold.
group_size(df, c) == Cardinality(group_rows(df, c))

\* Series.sum() of a series given as a sequence of [index, value] records.
RECURSIVE series_sum_to(_, _)
series_sum_to(s, n) == IF n = 0 THEN 0 ELSE series_sum_to(s, n - 1) + s[n].value

series_sum(s) == series_sum_to(s, Len(s))

\* Fault seeded into true_divide: a "safe" division that reports 0 on a zero
\* denominator.
true_divide_zero_fill(n, d) == IF d = 0 THEN <<0, 1>> ELSE <<n, d>>

\* numpy true division: 0/0 is NaN, x/0 is inf (kept as <<x, 0>>), no raise.
true_divide(n, d) == IF d = 0 /\ n = 0 THEN NaN ELSE <<n, d>>

\* Series / scalar.
series_div(s, d) ==
    [i \in DOMAIN s |-> [index |-> s[i].index, value |-> true_divide(s[i].value, d)]]

\* Fault seeded into dropna: the result of dropna is discarded, no row is
\* dropped.
dropna_discarded(df) == df

\* DataFrame.dropna(): the rows with no missing cell in any column.
dropna(df) ==
    SelectSeq(df, LAMBDA r : ~isna(r.transit_mode) /\ ~isna(r.unlinked_weight)
                             /\ ~isna(r.linked_weight))

--------------------------------------------------------------------------
\* The Table cell's intermediate values

unweighted(df) ==
    LET keys == group_keys(df)
    IN  [i \in DOMAIN keys |-> [index |-> keys[i], value |-> group_size(df, keys[i])]]

unlinked(df) ==
    LET keys == group_keys(df)
    IN  [i \in DOMAIN keys |->
            [index |-> keys[i],
             value |-> column_sum(df, "unlinked_weight", group_rows(df, keys[i]))]]

linked(df) ==
    LET keys == group_keys(df)
    IN  [i \in DOMAIN keys |->
            [index |-> keys[i],
             value |-> column_sum(df, "linked_weight", group_rows(df, keys[i]))]]

total_valid(df) == Len(dropna(df))

total(df) == Len(df)

\* Fault seeded into unlinked_total: the total is taken over the groups only.
unlinked_total_groups_only(df) ==
    column_sum(df, "unlinked_weight", {i \in DOMAIN df : ~isna(df[i].transit_mode)})

unlinked_total(df) == column_sum(df, "unlinked_weight", DOMAIN df)

\* Fault seeded into linked_total: the unlinked column is summed again.
linked_total_wrong_column(df) == column_sum(df, "unlinked_weight", DOMAIN df)

linked_total(df) == column_sum(df, "linked_weight", DOMAIN df)

unweighted_percent(df) == series_div(unweighted(df), series_sum(unweighted(df)))

\* Fault seeded into unlinked_percent: divided by the total over all rows.
unlinked_percent_of_all(df) == series_div(unlinked(df), unlinked_total(df))

unlinked_percent(df) == series_div(unlinked(df), series_sum(unlinked(df)))

linked_percent(df) == series_div(linked(df), series_sum(linked(df)))

\* summary = pd.DataFrame({...}): one row per group key, six columns.
build_summary(df) ==
    LET keys == group_keys(df)
        unweighted_count == unweighted(df)
        unweighted_pct == unweighted_percent(df)
        unlinked_count == unlinked(df)
        unlinked_pct == unlinked_percent(df)
        linked_count == linked(df)
        linked_pct == linked_percent(df)
    IN  [i \in DOMAIN keys |->
            [index |-> keys[i],
             unweighted_count |-> unweighted_count[i].value,
             unweighted_percent |-> unweighted_pct[i].value,
             unlinked_weight_count |-> unlinked_count[i].value,
             unlinked_weight_percent |-> unlinked_pct[i].value,
             linked_weight_count |-> linked_count[i].value,
             linked_weight_percent |-> linked_pct[i].value]]

\* The "Total valid" row dict; total(df) # 0 here, the python int division
\* total_valid / total is guarded in TableCell.
total_valid_row(df) ==
    [index |-> "Total valid",
     unweighted_count |-> total_valid(df),
     unweighted_percent |-> <<total_valid(df), total(df)>>,
     unlinked_weight_count |-> series_sum(unlinked(df)),
     unlinked_weight_percent |-> true_divide(series_sum(unlinked(df)), unlinked_total(df)),
     linked_weight_count |-> series_sum(linked(df)),
     linked_weight_percent |-> true_divide(series_sum(linked(df)), linked_total(df))]

\* Fault seeded into total_row: the percent keys are filled in as 100%.
total_row_with_percents(df) ==
    [index |-> "Total",
     unweighted_count |-> total(df),
     unweighted_percent |-> <<total(df), total(df)>>,
     unlinked_weight_count |-> unlinked_total(df),
     unlinked_weight_percent |-> true_divide(unlinked_total(df), unlinked_total(df)),
     linked_weight_count |-> linked_total(df),
     linked_weight_percent |-> true_divide(linked_total(df), linked_total(df))]

\* The "Total" row dict: the percent keys are absent, pd.DataFrame fills NaN.
total_row(df) ==
    [index |-> "Total",
     unweighted_count |-> total(df),
     unweighted_percent |-> NaN,
     unlinked_weight_count |-> unlinked_total(df),
     unlinked_weight_percent |-> NaN,
     linked_weight_count |-> linked_total(df),
     linked_weight_percent |-> NaN]

\* pd.concat([summary, DataFrame([total valid, total])]).
concat(summary_frame, df) == summary_frame \o <<total_valid_row(df), total_row(df)>>

--------------------------------------------------------------------------
\* to_html with the six formatters

\* "{:,.0f}".format
format_count(x) == [text |-> "number", digits |-> x]

\* "{:,.2%}".format of a number: hundredths of a percent, round-half-even.
format_ratio(n, d) ==
    LET q == (10000 * n) \div d
        r == (10000 * n) % d
    IN  IF 2 * r > d \/ (2 * r = d /\ q % 2 = 1) THEN q + 1 ELSE q

\* A percent cell.  A missing cell is rendered either by to_html's na_rep
\* ("NaN", the formatter is skipped) or by the formatter itself ("nan%"),
\* depending on the installed pandas; formatter_sees_na tells which.
format_percent(x, formatter_sees_na) ==
    IF isna(x) THEN [text |-> IF formatter_sees_na THEN "nan%" ELSE "NaN", digits |-> 0]
    ELSE IF x[2] = 0 THEN [text |-> "inf%", digits |-> 0]
    ELSE [text |-> "percent", digits |-> format_ratio(x[1], x[2])]

to_html(fr, formatter_sees_na) ==
    [i \in DOMAIN fr |->
        [index |-> fr[i].index,
         unweighted_count |-> format_count(fr[i].unweighted_count),
         unweighted_percent |-> format_percent(fr[i].unweighted_percent, formatter_sees_na),
         unlinked_weight_count |-> format_count(fr[i].unlinked_weight_count),
         unlinked_weight_percent |->
             format_percent(fr[i].unlinked_weight_percent, formatter_sees_na),
         linked_weight_count |-> format_count(fr[i].linked_weight_count),
         linked_weight_percent |->
             format_percent(fr[i].linked_weight_percent, formatter_sees_na)]]

--------------------------------------------------------------------------
\* The Chart cell: three bar traces over the summary frame.

bar(name, col) ==
    [name |-> name,
     x |-> [i \in DOMAIN summary |-> summary[i].index],
     y |-> [i \in DOMAIN summary |-> summary[i][col]]]

build_figure ==
    <<bar("Unweighted", "unweighted_percent"),
      bar("Weighted (Unlinked)", "unlinked_weight_percent"),
      bar("Weighted (Linked)", "linked_weight_percent")>>

--------------------------------------------------------------------------
\* Cells

Init ==
    /\ pc = "start"
    /\ transit_mode = <<>>
    /\ summary = <<>>
    /\ frame = <<>>
    /\ table = <<>>
    /\ figure = <<>>

\* Data cell: the two parquet files joined column-wise.
DataCell ==
    /\ pc = "start"
    /\ \E n \in 0..MaxRows : \E df \in DataFrames(n) : transit_mode' = df
    /\ pc' = "loaded"
    /\ UNCHANGED <<summary, frame, table, figure>>

\* Table cell.  summary is bound first; building the "Total valid" row dict
\* evaluates total_valid / total on two python ints, which raises
\* ZeroDivisionError when the frame has no rows, and table stays unbound.
TableCell ==
    /\ pc = "loaded"
    /\ summary' = build_summary(transit_mode)
    /\ IF total(transit_mode) = 0
       THEN /\ pc' = "raised"
            /\ UNCHANGED <<frame, table>>
       ELSE /\ pc' = "tabled"
            /\ frame' = concat(summary', transit_mode)
            /\ \E formatter_sees_na \in BOOLEAN :
                   table' = to_html(frame', formatter_sees_na)
    /\ UNCHANGED <<transit_mode, figure>>

\* Chart cell, run after the Table cell completed.
ChartCell ==
    /\ pc = "tabled"
    /\ figure' = build_figure
    /\ pc' = "charted"
    /\ UNCHANGED <<transit_mode, summary, frame, table>>

Next == DataCell \/ TableCell \/ ChartCell

Spec == Init /\ [][Next]_vars

--------------------------------------------------------------------------
\* Reference quantities of the input frame, computed row by row and
\* independently of the groupby pipeline above.

NonNullCategory(df) == {i \in DOMAIN df : ~isna(df[i].transit_mode)}

NullCategory(df) == {i \in DOMAIN df : isna(df[i].transit_mode)}

Complete(df) ==
    {i \in DOMAIN df : /\ ~isna(df[i].transit_mode)
                       /\ ~isna(df[i].unlinked_weight)
                       /\ ~isna(df[i].linked_weight)}

RECURSIVE WeightOver(_, _, _)
WeightOver(df, col, S) ==
    IF S = {} THEN 0
    ELSE LET i == CHOOSE j \in S : TRUE
         IN  (IF isna(df[i][col]) THEN 0 ELSE df[i][col][1])
             + WeightOver(df, col, S \ {i})

\* The Table cell completed: frame and table are bound.
Built == pc \in {"tabled", "charted"}

\* Positions of the per-category rows of the concatenated frame.
CategoryRows == {i \in DOMAIN frame : frame[i].index \in Categories}

RowsNamed(name) == {i \in DOMAIN frame : frame[i].index = name}

TotalValidRow == frame[CHOOSE i \in RowsNamed("Total valid") : TRUE]

TotalRow == frame[CHOOSE i \in RowsNamed("Total") : TRUE]

RECURSIVE FieldOver(_, _)
FieldOver(col, S) ==
    IF S = {} THEN 0
    ELSE LET i == CHOOSE j \in S : TRUE
         IN  frame[i][col] + FieldOver(col, S \ {i})

\* Sum of the numerators of the finite percent cells of one column.
RECURSIVE NumeratorOver(_, _)
NumeratorOver(col, S) ==
    IF S = {} THEN 0
    ELSE LET i == CHOOSE j \in S : TRUE
         IN  (IF isna(frame[i][col]) THEN 0 ELSE frame[i][col][1])
             + NumeratorOver(col, S \ {i})

--------------------------------------------------------------------------
\* C1: the per-category unweighted counts add up to the "Total valid"
\* unweighted count, and that count is the number of rows with no missing
\* field at all.
C1_CountsSumToTotalValid ==
    Built =>
        /\ TotalValidRow.unweighted_count = Cardinality(Complete(transit_mode))
        /\ FieldOver("unweighted_count", CategoryRows) = TotalValidRow.unweighted_count

\* C2 as stated: with a non-zero weight total, both weight percents of the
\* "Total valid" row are exactly 100% (numerator equals denominator).
C2_TotalValidWeightPercentIs100 ==
    Built =>
        /\ WeightOver(transit_mode, "unlinked_weight", DOMAIN transit_mode) # 0
               => /\ ~isna(TotalValidRow.unlinked_weight_percent)
                  /\ TotalValidRow.unlinked_weight_percent[1]
                         = TotalValidRow.unlinked_weight_percent[2]
        /\ WeightOver(transit_mode, "linked_weight", DOMAIN transit_mode) # 0
               => /\ ~isna(TotalValidRow.linked_weight_percent)
                  /\ TotalValidRow.linked_weight_percent[1]
                         = TotalValidRow.linked_weight_percent[2]

\* C2 amended: with a non-zero weight total over all rows, each weight
\* percent of the "Total valid" row is the weight of the rows with a non-null
\* category divided by the weight of all rows, so it falls short of 100% by
\* exactly the weight carried by the null-category rows.
C2_TotalValidWeightPercentIsValidShare ==
    Built =>
        \A col \in {"unlinked_weight", "linked_weight"} :
            LET pct == IF col = "unlinked_weight"
                       THEN TotalValidRow.unlinked_weight_percent
                       ELSE TotalValidRow.linked_weight_percent
                all == WeightOver(transit_mode, col, DOMAIN transit_mode)
            IN  all # 0 =>
                    /\ pct = <<WeightOver(transit_mode, col, NonNullCategory(transit_mode)), all>>
                    /\ pct[2] - pct[1] = WeightOver(transit_mode, col, NullCategory(transit_mode))

\* C2 witness: a null-category row carries weight next to a weighted category
\* row, and the table is built.
C2_Witness ==
    /\ Built
    /\ WeightOver(transit_mode, "unlinked_weight", NullCategory(transit_mode)) > 0
    /\ WeightOver(transit_mode, "unlinked_weight", NonNullCategory(transit_mode)) > 0
    /\ TotalValidRow.unlinked_weight_percent[1] < TotalValidRow.unlinked_weight_percent[2]

\* C3: the "Total" row holds the number of all rows and the weight sums over
\* all rows, the "Total valid" row the weight sums over the rows with a
\* non-null category.
C3_TotalRowsSums ==
    Built =>
        /\ TotalRow.unweighted_count = Len(transit_mode)
        /\ TotalRow.unlinked_weight_count
               = WeightOver(transit_mode, "unlinked_weight", DOMAIN transit_mode)
        /\ TotalRow.linked_weight_count
               = WeightOver(transit_mode, "linked_weight", DOMAIN transit_mode)
        /\ TotalValidRow.unlinked_weight_count
               = WeightOver(transit_mode, "unlinked_weight", NonNullCategory(transit_mode))
        /\ TotalValidRow.linked_weight_count
               = WeightOver(transit_mode, "linked_weight", NonNullCategory(transit_mode))

\* C3 witness: a weighted null-category row next to a weighted category row,
\* so the two totals differ.
C3_Witness ==
    /\ Built
    /\ NonNullCategory(transit_mode) # {}
    /\ TotalRow.unlinked_weight_count > TotalValidRow.unlinked_weight_count
    /\ TotalValidRow.unlinked_weight_count > 0
    /\ TotalRow.linked_weight_count > TotalValidRow.linked_weight_count

\* C4: in each of the three series, every finite per-category percent is its
\* row's count over one common denominator, the numerators add up to that
\* denominator, and the denominator is the count (or weight) of the rows
\* with a non-null category.
C4_CategoryPercentsSumTo100 ==
    Built =>
        /\ \A i \in CategoryRows :
               /\ frame[i].unweighted_percent
                      = <<frame[i].unweighted_count, Cardinality(NonNullCategory(transit_mode))>>
               /\ NumeratorOver("unweighted_percent", CategoryRows)
                      = frame[i].unweighted_percent[2]
        /\ \A i \in CategoryRows :
               ~isna(frame[i].unlinked_weight_percent) =>
                   /\ frame[i].unlinked_weight_percent
                          = <<frame[i].unlinked_weight_count,
                              WeightOver(transit_mode, "unlinked_weight",
                                         NonNullCategory(transit_mode))>>
                   /\ NumeratorOver("unlinked_weight_percent", CategoryRows)
                          = frame[i].unlinked_weight_percent[2]
                   /\ frame[i].unlinked_weight_percent[2] # 0
        /\ \A i \in CategoryRows :
               ~isna(frame[i].linked_weight_percent) =>
                   /\ frame[i].linked_weight_percent
                          = <<frame[i].linked_weight_count,
                              WeightOver(transit_mode, "linked_weight",
                                         NonNullCategory(transit_mode))>>
                   /\ NumeratorOver("linked_weight_percent", CategoryRows)
                          = frame[i].linked_weight_percent[2]
                   /\ frame[i].linked_weight_percent[2] # 0

\* C4 witness: a weighted category row next to a weighted null-category row
\* that the denominators must leave out.
C4_Witness ==
    /\ Built
    /\ CategoryRows # {}
    /\ WeightOver(transit_mode, "unlinked_weight", NullCategory(transit_mode)) > 0
    /\ WeightOver(transit_mode, "linked_weight", NullCategory(transit_mode)) > 0
    /\ \A i \in CategoryRows : /\ ~isna(frame[i].unlinked_weight_percent)
                               /\ frame[i].unlinked_weight_percent[1] > 0
                               /\ ~isna(frame[i].linked_weight_percent)

\* C5: no division by zero raises; an input with no rows still builds the
\* table, with NaN in the "Total valid" unweighted percent.
C5_DivisionNeverRaises ==
    /\ pc # "raised"
    /\ (Built /\ Len(transit_mode) = 0) => isna(TotalValidRow.unweighted_percent)

\* C6: for a non-empty input whose weight total of a series is zero, every
\* percent of that series (per-category rows and "Total valid") is NaN.
C6_ZeroWeightPercentsAreNaN ==
    (Built /\ Len(transit_mode) > 0) =>
        /\ WeightOver(transit_mode, "unlinked_weight", DOMAIN transit_mode) = 0
               => /\ \A i \in CategoryRows : isna(frame[i].unlinked_weight_percent)
                  /\ isna(TotalValidRow.unlinked_weight_percent)
        /\ WeightOver(transit_mode, "linked_weight", DOMAIN transit_mode) = 0
               => /\ \A i \in CategoryRows : isna(frame[i].linked_weight_percent)
                  /\ isna(TotalValidRow.linked_weight_percent)

\* C6 witness: a built table over rows of two categories whose unlinked
\* weights are present and all zero.
C6_Witness ==
    /\ Built
    /\ Cardinality(CategoryRows) = 2
    /\ \A i \in DOMAIN transit_mode : transit_mode[i].unlinked_weight = <<0>>
    /\ WeightOver(transit_mode, "linked_weight", DOMAIN transit_mode) > 0

\* C7: the three percent fields of the "Total" row are missing and its three
\* count fields hold numbers.
C7_TotalRowPercentsBlank ==
    Built =>
        /\ isna(TotalRow.unweighted_percent)
        /\ isna(TotalRow.unlinked_weight_percent)
        /\ isna(TotalRow.linked_weight_percent)
        /\ TotalRow.unweighted_count \in Nat
        /\ TotalRow.unlinked_weight_count \in Nat
        /\ TotalRow.linked_weight_count \in Nat

\* C7 witness: a built table whose "Total valid" percents are all numbers
\* while "Total" counts rows and weight.
C7_Witness ==
    /\ Built
    /\ ~isna(TotalValidRow.unlinked_weight_percent)
    /\ ~isna(TotalValidRow.linked_weight_percent)
    /\ TotalRow.unweighted_count = MaxRows
    /\ TotalRow.unlinked_weight_count > 0

\* C8: in the formatted table the percent cells of the "Total" row are empty.
C8_BlankRenderedEmpty ==
    Built =>
        \A i \in DOMAIN table :
            table[i].index = "Total" =>
                /\ table[i].unweighted_percent.text = ""
                /\ table[i].unlinked_weight_percent.text = ""
                /\ table[i].linked_weight_percent.text = ""

\* C9: the frame is the per-category rows, one per distinct non-null
\* category of the input, then one "Total valid" row, then one "Total" row.
C9_RowOrder ==
    Built =>
        LET n == Len(frame)
            seen == {transit_mode[i].transit_mode[1] : i \in NonNullCategory(transit_mode)}
        IN  /\ n = Cardinality(seen) + 2
            /\ {frame[i].index : i \in 1..(n - 2)} = seen
            /\ \A i, j \in 1..(n - 2) : frame[i].index = frame[j].index => i = j
            /\ frame[n - 1].index = "Total valid"
            /\ frame[n].index = "Total"

\* C9 witness: the input holds a "Rail" row before a "Bus" row and the built
\* frame has the two category rows ahead of the two total rows.
C9_Witness ==
    /\ Built
    /\ Len(transit_mode) >= 2
    /\ transit_mode[1].transit_mode = <<"Rail">>
    /\ transit_mode[2].transit_mode = <<"Bus">>
    /\ Len(frame) = 4

\* C10: "Total valid" count <= sum of the per-category counts <= "Total"
\* count, and the "Total valid" unweighted percent is at most 100%.
C10_CountOrdering ==
    Built =>
        /\ TotalValidRow.unweighted_count <= FieldOver("unweighted_count", CategoryRows)
        /\ FieldOver("unweighted_count", CategoryRows) <= TotalRow.unweighted_count
        /\ TotalValidRow.unweighted_percent[1] <= TotalValidRow.unweighted_percent[2]

\* C10 witness: both inequalities are strict.
C10_Witness ==
    /\ Built
    /\ TotalValidRow.unweighted_count < FieldOver("unweighted_count", CategoryRows)
    /\ FieldOver("unweighted_count", CategoryRows) < TotalRow.unweighted_count

====
